---- MODULE Spec2Model ----
(***************************************************************************)
(* Drowsiness detection module of SmartRail Shield (drows_streamlit.py).   *)
(*                                                                         *)
(* The model follows the script: the session state (lines 111-120), the    *)
(* sidebar settings (124-129), the three buttons (152-167), the camera     *)
(* open (170-180), the detection loop (190-302) with the per-face two-pass *)
(* eye detection (202-233) and the drowsiness logic (239-276), and the     *)
(* except/finally that ends a session (303-316).                           *)
(*                                                                         *)
(* Time is counted in tenths of a second: the slider's 0.5 .. 5.0 step 0.5 *)
(* is 5, 10, 15, ... and time.time() is the variable now.                  *)
(***************************************************************************)
EXTENDS Integers, Sequences, FiniteSets, TLC

\* ------------------------------------------------------------------ bounds
\* The clock stops advancing at MaxTime.
MaxTime == 17
\* Slider positions in use, counted from the lowest (the slider has ten).
MaxSliderSteps == 3
\* Frames per session: the source's max_frames is 500 (line 184); the model
\* runs the same loop with a smaller budget.
max_frames == 3
\* Faces the face matcher returns for one frame.
MaxFaces == 2
\* Eye regions one pass of the eye matcher returns for one face.
MaxEyes == 2

\* ------------------------------------------------------------------ state
VARIABLES
    \* st.session_state (lines 111-120)
    closed_start,        \* None, or <<t>>: the time the eyes were first seen closed
    alarm_on,
    total_alerts,
    play_alarm,
    detection_running,
    \* sidebar settings (lines 124-127) and the import-time flag (lines 15-22)
    sensitivity,
    enable_sound,
    firebase_enabled,
    \* the script
    pc,                  \* "idle", "open", "loop", "frame", "finally"
    rendered_running,    \* detection_running as the buttons were last rendered (152, 154)
    cap,                 \* "none", "open", "failed", "released"
    frame_count,
    drowsy,              \* locals of the last iteration (199, 200, 236)
    eyes_detected,
    current_status,
    \* the environment
    now,                 \* time.time()
    \* the frame under classification in DetectSpec, and what was done for each face
    faces,
    eyes_used,
    lenient_calls,
    classified,
    \* history of the run
    run_start,           \* time of the first frame of the current run of drowsy frames
    run_exceeded,        \* a frame of the current run came later than the threshold
    exceeded_runs,       \* runs so far with such a frame
    recovered,           \* an eyes-open frame has ended an alert
    \* the session under way: its last frame found closed_start empty and alarm_on
    \* false; detection_running when that frame went through the body
    prev_awake,
    flag_at_frame,
    alert_edge,          \* the last frame set alarm_on (255-258)
    audio_emitted,       \* the last frame emitted the audio element (279-284)
    pushed,              \* the last frame's push: "none", "ok", "failed" (261-272)
    releases,            \* cap.release() calls since the last Start
    exit_cause,          \* how the last session ended
    acquired             \* cap.read() calls since the last Start

vars == << closed_start, alarm_on, total_alerts, play_alarm, detection_running,
           sensitivity, enable_sound, firebase_enabled, pc, rendered_running, cap,
           frame_count, drowsy, eyes_detected, current_status, now, faces, eyes_used,
           lenient_calls, classified, run_start, run_exceeded, exceeded_runs,
           recovered, prev_awake, flag_at_frame, alert_edge, audio_emitted, pushed,
           releases, exit_cause, acquired >>

sessionState == << closed_start, alarm_on, total_alerts, play_alarm >>
settings == << sensitivity, enable_sound, firebase_enabled >>
detectVars == << faces, eyes_used, lenient_calls, classified >>
runHistory == << run_start, run_exceeded, exceeded_runs, recovered, alert_edge,
                 audio_emitted, pushed >>
frameEntry == << prev_awake, flag_at_frame >>
frameLocals == << drowsy, eyes_detected, current_status >>

None == << >>

\* The slider (line 124): 0.5 to 5.0 in steps of 0.5, default 1.5.
Sensitivities == { 5 * k : k \in 1..MaxSliderSteps }
DefaultSensitivity == 15

\* ------------------------------------------------------ detector adapter
\* What the eye matcher returns for one face under each configuration.
Regions == 1..MaxEyes
Face == [ strict : SUBSET Regions, lenient : SUBSET Regions ]
FacesOfLen(n) == [ 1..n -> Face ]
Frames == UNION { FacesOfLen(n) : n \in 0..MaxFaces }

\* Lines 209-224: the strict pass, and the lenient pass when it found nothing.
EyesOfFace_StrictOnly(face) == [ eyes |-> face.strict, lenient_calls |-> 0 ]
EyesOfFace(face) ==
    IF Cardinality(face.strict) = 0
    THEN [ eyes |-> face.lenient, lenient_calls |-> 1 ]
    ELSE [ eyes |-> face.strict, lenient_calls |-> 0 ]

\* Lines 226-229: eyes_detected is overwritten per face, drowsy only cleared.
DrowsyAfterFace_LastFaceWins(d, n) == (n = 0)
DrowsyAfterFace(d, n) == IF n > 0 THEN FALSE ELSE d

\* Lines 199-233: the loop over the faces, in the matcher's order.
RECURSIVE DetectFrom(_, _, _)
DetectFrom(fs, i, acc) ==
    IF i > Len(fs) THEN acc
    ELSE LET e == EyesOfFace(fs[i])
             n == Cardinality(e.eyes)
         IN  DetectFrom(fs, i + 1,
                 [ drowsy |-> DrowsyAfterFace(acc.drowsy, n),
                   eyes_detected |-> n,
                   eyes_used |-> Append(acc.eyes_used, e.eyes),
                   lenient_calls |-> Append(acc.lenient_calls, e.lenient_calls) ])

DetectFrame(fs) ==
    DetectFrom(fs, 1, [ drowsy |-> TRUE, eyes_detected |-> 0,
                        eyes_used |-> << >>, lenient_calls |-> << >> ])

\* What a frame can come to, over every frame within the bounds.
FrameOutcomes ==
    { [ drowsy |-> DetectFrame(f).drowsy,
        eyes_detected |-> DetectFrame(f).eyes_detected ] : f \in Frames }

\* ------------------------------------------------------ drowsiness logic
\* Line 242: time.time() - closed_start > sensitivity.
Exceeds_AtOrAbove(t, start, thr) == t - start >= thr
Exceeds(t, start, thr) == t - start > thr

\* Line 255: the alert fires only when it is not already on.
AlertFires_EveryFrame(ao) == TRUE
AlertFires(ao) == ~ao

\* Lines 273-276: eyes seen open.
EyesOpen_KeepTimer(cs, ta) ==
    [ closed_start |-> cs, alarm_on |-> FALSE, total_alerts |-> ta,
      play_alarm |-> FALSE, status |-> "SAFE", edge |-> FALSE ]
EyesOpen_PlaysAlarm(cs, ta) ==
    [ closed_start |-> None, alarm_on |-> FALSE, total_alerts |-> ta,
      play_alarm |-> TRUE, status |-> "SAFE", edge |-> FALSE ]
EyesOpen(cs, ta) ==
    [ closed_start |-> None, alarm_on |-> FALSE, total_alerts |-> ta,
      play_alarm |-> FALSE, status |-> "SAFE", edge |-> FALSE ]

\* Lines 236-276.
DrowsinessLogic(d, cs, ao, ta, pa, t, thr) ==
    IF d
    THEN IF cs = None
         THEN [ closed_start |-> << t >>, alarm_on |-> ao, total_alerts |-> ta,
                play_alarm |-> pa, status |-> "SAFE", edge |-> FALSE ]
         ELSE IF Exceeds(t, cs[1], thr)
              THEN IF AlertFires(ao)
                   THEN [ closed_start |-> cs, alarm_on |-> TRUE,
                          total_alerts |-> ta + 1, play_alarm |-> TRUE,
                          status |-> "ALERT", edge |-> TRUE ]
                   ELSE [ closed_start |-> cs, alarm_on |-> ao, total_alerts |-> ta,
                          play_alarm |-> pa, status |-> "ALERT", edge |-> FALSE ]
              ELSE [ closed_start |-> cs, alarm_on |-> ao, total_alerts |-> ta,
                     play_alarm |-> pa, status |-> "SAFE", edge |-> FALSE ]
    ELSE EyesOpen(cs, ta)

\* Line 279: the audio element is emitted when play_alarm and the sound setting hold.
EmitsAudio(pa, sound) == pa /\ sound

\* ------------------------------------------------------------------ Init
\* The state after the first run of the script: lines 111-120 and the defaults
\* of the sidebar; the buttons are rendered with detection_running = False.
Init ==
    /\ closed_start = None
    /\ alarm_on = FALSE
    /\ total_alerts = 0
    /\ play_alarm = FALSE
    /\ detection_running = FALSE
    /\ sensitivity = DefaultSensitivity
    /\ enable_sound = TRUE
    /\ firebase_enabled \in BOOLEAN
    /\ pc = "idle"
    /\ rendered_running = FALSE
    /\ cap = "none"
    /\ frame_count = 0
    /\ drowsy = TRUE
    /\ eyes_detected = 0
    /\ current_status = "SAFE"
    /\ now = 0
    /\ faces = << >>
    /\ eyes_used = << >>
    /\ lenient_calls = << >>
    /\ classified = FALSE
    /\ run_start = None
    /\ run_exceeded = FALSE
    /\ exceeded_runs = 0
    /\ recovered = FALSE
    /\ prev_awake = FALSE
    /\ flag_at_frame = FALSE
    /\ alert_edge = FALSE
    /\ audio_emitted = FALSE
    /\ pushed = "none"
    /\ releases = 0
    /\ exit_cause = "none"
    /\ acquired = 0

\* --------------------------------------------------------------- buttons
\* Lines 152, 161-163: Start is enabled when the buttons were rendered with
\* detection_running false; the rerun renders them again and reaches line 170.
ClickStart ==
    /\ pc = "idle"
    /\ ~rendered_running
    /\ detection_running' = TRUE
    /\ rendered_running' = TRUE
    /\ pc' = "open"
    /\ cap' = "none"
    /\ releases' = 0
    /\ acquired' = 0
    /\ exit_cause' = "running"
    /\ UNCHANGED << sessionState, settings, frame_count, frameLocals, now,
                    detectVars, runHistory, frameEntry >>

\* Lines 154, 165-167: Stop is enabled when the buttons were rendered with
\* detection_running true. The handler clears the flag in the session state;
\* a loop under way reads it at its next condition (line 190) and leaves through
\* the finally clause. The rerun renders the buttons with the flag false.
ClickStop ==
    /\ rendered_running
    /\ detection_running' = FALSE
    /\ rendered_running' = FALSE
    /\ UNCHANGED << sessionState, settings, pc, cap, frame_count, frameLocals, now,
                    detectVars, runHistory, frameEntry, releases, exit_cause, acquired >>

\* Lines 156-159: Reset Camera is always enabled.
ClickReset ==
    /\ detection_running' = FALSE
    /\ rendered_running' = FALSE
    /\ UNCHANGED << sessionState, settings, pc, cap, frame_count, frameLocals, now,
                    detectVars, runHistory, frameEntry, releases, exit_cause, acquired >>

\* Line 124: the slider is moved between sessions; the script reruns and
\* renders the buttons with the current flag.
SetSensitivity ==
    /\ pc = "idle"
    /\ \E s \in Sensitivities \ { sensitivity } : sensitivity' = s
    /\ rendered_running' = detection_running
    /\ UNCHANGED << sessionState, detection_running, enable_sound, firebase_enabled,
                    pc, cap, frame_count, frameLocals, now, detectVars, runHistory, frameEntry,
                    releases, exit_cause, acquired >>

\* Line 127: the sound checkbox.
SetSound ==
    /\ pc = "idle"
    /\ enable_sound' = ~enable_sound
    /\ rendered_running' = detection_running
    /\ UNCHANGED << sessionState, detection_running, sensitivity, firebase_enabled,
                    pc, cap, frame_count, frameLocals, now, detectVars, runHistory, frameEntry,
                    releases, exit_cause, acquired >>

\* --------------------------------------------------------------- session
\* Line 178: the flag after a failed open.
RunningAfterOpenFailure_LeftSet(running) == running
RunningAfterOpenFailure(running) == FALSE

\* Lines 170-183: the camera opens or does not.
OpenCamera ==
    /\ pc = "open"
    /\ \E opened \in BOOLEAN :
         IF opened
         THEN /\ cap' = "open"
              /\ frame_count' = 0
              /\ pc' = "loop"
              /\ UNCHANGED << detection_running, exit_cause >>
         ELSE /\ cap' = "failed"
              /\ detection_running' = RunningAfterOpenFailure(detection_running)
              /\ pc' = "idle"
              /\ exit_cause' = "open_failed"
              /\ UNCHANGED frame_count
    /\ UNCHANGED << sessionState, settings, rendered_running, frameLocals, now,
                    detectVars, runHistory, frameEntry, releases, acquired >>

\* Line 190: the loop's condition.
LoopCondition_IgnoresFlag(running, count) == count < max_frames
LoopCondition(running, count) == running /\ count < max_frames

LoopExit ==
    /\ pc = "loop"
    /\ ~LoopCondition(detection_running, frame_count)
    /\ pc' = "finally"
    /\ exit_cause' = IF ~detection_running THEN "stopped" ELSE "budget"
    /\ UNCHANGED << sessionState, detection_running, settings, rendered_running, cap,
                    frame_count, frameLocals, now, detectVars, runHistory, frameEntry, releases,
                    acquired >>

\* Lines 192-194: a failed read leaves the loop.
AfterReadFailure_Retry == "loop"
AfterReadFailure == "finally"

\* Lines 191-194.
ReadFrame ==
    /\ pc = "loop"
    /\ LoopCondition(detection_running, frame_count)
    /\ acquired' = acquired + 1
    /\ \E ret \in BOOLEAN :
         IF ret
         THEN pc' = "frame" /\ UNCHANGED exit_cause
         ELSE pc' = AfterReadFailure /\ exit_cause' = "read_failure"
    /\ UNCHANGED << sessionState, detection_running, settings, rendered_running, cap,
                    frame_count, frameLocals, now, detectVars, runHistory, frameEntry, releases >>

\* Lines 196-224, 303-304: a matcher raises; the except clause reports it.
MatcherFault ==
    /\ pc = "frame"
    /\ pc' = "finally"
    /\ exit_cause' = "exception"
    /\ UNCHANGED << sessionState, detection_running, settings, rendered_running, cap,
                    frame_count, frameLocals, now, detectVars, runHistory, frameEntry, releases,
                    acquired >>

\* Lines 262-272: an exception of the push is caught and printed; the iteration
\* goes on.
AfterPush_FailureRaises(push_ok) == IF push_ok THEN "loop" ELSE "finally"
AfterPush(push_ok) == "loop"

\* Lines 196-302: one frame is classified, the drowsiness logic runs, the alarm
\* is played, the status and the metrics are shown, the count goes up.
ProcessFrame ==
    /\ pc = "frame"
    /\ \E r \in FrameOutcomes, push_ok \in BOOLEAN :
         LET sm == DrowsinessLogic(r.drowsy, closed_start, alarm_on, total_alerts,
                                   play_alarm, now, sensitivity)
             late == r.drowsy /\ run_start # None /\ now - run_start[1] > sensitivity
         IN  /\ closed_start' = sm.closed_start
             /\ alarm_on' = sm.alarm_on
             /\ total_alerts' = sm.total_alerts
             /\ play_alarm' = sm.play_alarm
             /\ drowsy' = r.drowsy
             /\ eyes_detected' = r.eyes_detected
             /\ current_status' = sm.status
             /\ alert_edge' = sm.edge
             /\ audio_emitted' = EmitsAudio(sm.play_alarm, enable_sound)
             /\ pushed' = IF sm.edge /\ firebase_enabled
                          THEN IF push_ok THEN "ok" ELSE "failed"
                          ELSE "none"
             /\ run_start' = IF r.drowsy
                             THEN IF run_start = None THEN << now >> ELSE run_start
                             ELSE None
             /\ run_exceeded' = IF r.drowsy THEN run_exceeded \/ late ELSE FALSE
             /\ exceeded_runs' = IF late /\ ~run_exceeded
                                 THEN exceeded_runs + 1 ELSE exceeded_runs
             /\ recovered' = IF r.drowsy THEN recovered ELSE (recovered \/ alarm_on)
             /\ prev_awake' = (closed_start = None /\ ~alarm_on)
             /\ flag_at_frame' = detection_running
             /\ pc' = IF sm.edge /\ firebase_enabled THEN AfterPush(push_ok) ELSE "loop"
    /\ frame_count' = frame_count + 1
    /\ UNCHANGED << detection_running, settings, rendered_running, cap, now,
                    detectVars, releases, exit_cause, acquired >>

\* Lines 307-309: the camera is released when it is open.
ReleasesInFinally_Never(c) == 0
ReleasesInFinally(c) == IF c = "open" THEN 1 ELSE 0

\* Lines 305-316: release, clear the flag, rerun when the budget was used up.
Finally ==
    /\ pc = "finally"
    /\ releases' = releases + ReleasesInFinally(cap)
    /\ cap' = IF ReleasesInFinally(cap) = 1 THEN "released" ELSE cap
    /\ detection_running' = FALSE
    /\ rendered_running' = IF frame_count >= max_frames THEN FALSE ELSE rendered_running
    /\ pc' = "idle"
    /\ prev_awake' = FALSE
    /\ flag_at_frame' = FALSE
    /\ UNCHANGED << sessionState, settings, frame_count, frameLocals, now, detectVars,
                    runHistory, exit_cause, acquired >>

\* time.time() moves on between frames (the blocking read, the sleep of line
\* 301) and between sessions; the loop body reads it once, at line 241 or 242.
Tick ==
    /\ pc \in { "idle", "loop" }
    /\ now < MaxTime
    /\ now' = now + 1
    /\ UNCHANGED << sessionState, detection_running, settings, pc, rendered_running,
                    cap, frame_count, frameLocals, detectVars, runHistory, frameEntry, releases,
                    exit_cause, acquired >>

Next ==
    \/ ClickStart
    \/ ClickStop
    \/ ClickReset
    \/ SetSensitivity
    \/ SetSound
    \/ OpenCamera
    \/ LoopExit
    \/ ReadFrame
    \/ MatcherFault
    \/ ProcessFrame
    \/ Finally
    \/ Tick

Spec == Init /\ [][Next]_vars

\* The script thread keeps running: a step of the script that can be taken is
\* taken (cap.read() returns a frame or a failure, the matchers return or raise).
ScriptStep ==
    \/ OpenCamera
    \/ LoopExit
    \/ ReadFrame
    \/ MatcherFault
    \/ ProcessFrame
    \/ Finally

FairSpec == Spec /\ WF_vars(ScriptStep)

\* --------------------------------------------- the detector on its own
\* Every frame within the bounds is classified once (lines 199-233).
DetectInit ==
    /\ faces \in Frames
    /\ classified = FALSE
    /\ eyes_used = << >>
    /\ lenient_calls = << >>
    /\ closed_start = None
    /\ alarm_on = FALSE
    /\ total_alerts = 0
    /\ play_alarm = FALSE
    /\ detection_running = TRUE
    /\ sensitivity = DefaultSensitivity
    /\ enable_sound = TRUE
    /\ firebase_enabled = FALSE
    /\ pc = "frame"
    /\ rendered_running = TRUE
    /\ cap = "open"
    /\ frame_count = 0
    /\ drowsy = TRUE
    /\ eyes_detected = 0
    /\ current_status = "SAFE"
    /\ now = 0
    /\ run_start = None
    /\ run_exceeded = FALSE
    /\ exceeded_runs = 0
    /\ recovered = FALSE
    /\ prev_awake = FALSE
    /\ flag_at_frame = FALSE
    /\ alert_edge = FALSE
    /\ audio_emitted = FALSE
    /\ pushed = "none"
    /\ releases = 0
    /\ exit_cause = "running"
    /\ acquired = 1

Classify ==
    /\ ~classified
    /\ LET r == DetectFrame(faces)
       IN  /\ drowsy' = r.drowsy
           /\ eyes_detected' = r.eyes_detected
           /\ eyes_used' = r.eyes_used
           /\ lenient_calls' = r.lenient_calls
    /\ classified' = TRUE
    /\ UNCHANGED << sessionState, detection_running, settings, pc, rendered_running,
                    cap, frame_count, current_status, now, faces, runHistory, frameEntry, releases,
                    exit_cause, acquired >>

DetectNext == Classify

DetectSpec == DetectInit /\ [][DetectNext]_vars

\* ------------------------------------------------------------------ claims
\* A frame has just been through the loop body (lines 196-302).
FrameStep == pc = "frame" /\ pc' = "loop"

\* C1: total_alerts equals the number of runs of drowsy frames that had a frame
\* later than the threshold after the run's first frame: one increment for each
\* such run, none for the others, never a second one while the run goes on.
C1_AlertsCountExceedingRuns == total_alerts = exceeded_runs

\* A second run has alerted and a further drowsy frame of it has been processed.
C1_Witness ==
    /\ total_alerts = 2
    /\ alarm_on
    /\ current_status = "ALERT"
    /\ ~alert_edge
    /\ pc = "loop"

\* C2: whenever alarm_on holds, closed_start is set and lies more than the
\* threshold in the past.
C2_AlertingImpliesTimerExceeded ==
    alarm_on => (closed_start # None /\ now - closed_start[1] > sensitivity)

\* C3: every session start is matched by exactly one camera release, whether
\* the camera opened or not.
C3_OneReleasePerStart ==
    /\ releases <= 1
    /\ (pc = "idle" /\ exit_cause # "none") => releases = 1

\* C4: at the first frame of every session the timer is empty, the alert flag
\* is off and the count is zero.
C4_FirstFrameStateReset ==
    (pc = "frame" /\ frame_count = 0)
        => (closed_start = None /\ ~alarm_on /\ total_alerts = 0)

\* C5: the audio element and the push happen on the frame that sets alarm_on
\* and on no other frame.
C5_OneShotSideEffects ==
    (pc = "loop" /\ frame_count > 0)
        => /\ audio_emitted <=> (alert_edge /\ enable_sound)
           /\ (pushed # "none") <=> (alert_edge /\ firebase_enabled)

\* C6: a frame raises total_alerts exactly when it is a drowsy frame of a run
\* already under way, it comes strictly later than the threshold after the run's
\* first frame, and no earlier frame of the run did.
C6_AlertAtFirstFrameBeyondThreshold ==
    [][ FrameStep =>
          /\ total_alerts' \in { total_alerts, total_alerts + 1 }
          /\ (total_alerts' = total_alerts + 1)
               <=> ( /\ drowsy'
                     /\ run_start # None
                     /\ now - run_start[1] > sensitivity
                     /\ ~run_exceeded ) ]_vars

\* With the threshold at 1.5 s the alert has just fired 1.6 s into the run.
C6_Witness ==
    /\ alert_edge
    /\ pc = "loop"
    /\ sensitivity = 15
    /\ run_start # None
    /\ now - run_start[1] = 16
    /\ total_alerts = 1

\* C7: an eyes-open frame during an alert clears closed_start and alarm_on; from
\* then on the timer is that of the current run, and an alert is raised only on
\* a frame later than the threshold after the current run's first frame.
C7_RecoveryRestartsTimer ==
    [][ FrameStep =>
          /\ (alarm_on /\ ~drowsy') => (closed_start' = None /\ ~alarm_on')
          /\ recovered' => closed_start' = run_start'
          /\ (recovered /\ total_alerts' # total_alerts)
               => (run_start # None /\ now - run_start[1] > sensitivity) ]_vars

\* After a recovery a second run has alerted on its own.
C7_Witness ==
    /\ recovered
    /\ alert_edge
    /\ alarm_on
    /\ total_alerts = 2
    /\ pc = "loop"

\* C8: a frame is drowsy exactly when no face has an eye under either pass;
\* with no face it is drowsy.
C8_DrowsyIffNoFaceHasEyes ==
    classified =>
        ( drowsy <=> \A i \in 1..Len(faces) :
                         faces[i].strict = {} /\ faces[i].lenient = {} )

\* Two faces, the first with an eye and the last without: eyes open.
C8_Witness ==
    /\ classified
    /\ Len(faces) = 2
    /\ faces[1].strict # {}
    /\ faces[2].strict = {} /\ faces[2].lenient = {}
    /\ ~drowsy

\* C9: for each face the regions used are the strict pass's when it has any,
\* else the lenient pass's; the lenient pass runs at most once, and only after
\* an empty strict pass; one lenient region alone makes the frame eyes-open.
C9_StrictThenLenient ==
    classified =>
        \A i \in 1..Len(faces) :
            /\ eyes_used[i] = IF faces[i].strict # {} THEN faces[i].strict
                              ELSE faces[i].lenient
            /\ lenient_calls[i] <= 1
            /\ lenient_calls[i] = 1 => faces[i].strict = {}
            /\ (faces[i].strict = {} /\ Cardinality(faces[i].lenient) = 1) => ~drowsy

\* One face, nothing under the strict pass, one region under the lenient pass.
C9_Witness ==
    /\ classified
    /\ Len(faces) = 1
    /\ faces[1].strict = {}
    /\ Cardinality(faces[1].lenient) = 1
    /\ lenient_calls = << 1 >>
    /\ ~drowsy

\* C10: after a failed read or a matcher exception the loop is left for good:
\* no frame is acquired, and once the script is idle the flag is false and the
\* camera has been released once.
C10_FailureEndsSession ==
    exit_cause \in { "read_failure", "exception" }
        => /\ pc \in { "finally", "idle" }
           /\ pc = "idle" => ( /\ ~detection_running
                               /\ cap = "released"
                               /\ releases = 1 )

\* A session ended by a failed read after a frame; Start is enabled again.
C10_Witness ==
    /\ exit_cause = "read_failure"
    /\ pc = "idle"
    /\ frame_count > 0
    /\ ~rendered_running

\* C11: when the camera does not open no frame is acquired, closed_start,
\* alarm_on, play_alarm and total_alerts are left as they were, and the flag is
\* false again.
C11_OpenFailureStartsNothing ==
    [][ (pc = "open" /\ pc' \notin { "open", "loop" }) =>
          /\ pc' = "idle"
          /\ UNCHANGED sessionState
          /\ UNCHANGED << frame_count, frameLocals >>
          /\ acquired' = 0
          /\ ~detection_running' ]_vars

\* The open has failed with a timer and a count left from an earlier session.
C11_Witness ==
    /\ exit_cause = "open_failed"
    /\ pc = "idle"
    /\ closed_start # None
    /\ total_alerts = 1
    /\ acquired = 0
    /\ ~detection_running

\* C12: an eyes-open frame processed while closed_start is empty and alarm_on
\* is false leaves closed_start, alarm_on, play_alarm and total_alerts unchanged.
C12_OpenFrameWhileAwakeChangesNothing ==
    [][ (FrameStep /\ closed_start = None /\ ~alarm_on /\ ~drowsy') =>
          UNCHANGED sessionState ]_vars

\* A second eyes-open frame in a row, processed while awake, after one alert.
C12_Witness ==
    /\ prev_awake
    /\ ~drowsy
    /\ pc = "loop"
    /\ frame_count >= 2
    /\ closed_start = None
    /\ ~alarm_on
    /\ total_alerts = 1

\* C13: a session that ended because frame_count reached max_frames is followed,
\* after the rerun of line 316, by a running session: the script does not come
\* to rest with that session as its last.
C13_BudgetExitRestarts ==
    [][ (pc = "finally" /\ exit_cause = "budget" /\ pc' # "finally") =>
          (detection_running' /\ pc' = "open") ]_vars

\* C14: a frame is acquired only at the top of the loop with the flag set, so
\* none is acquired once the flag is cleared; an iteration under way when the
\* flag is cleared still runs its body, and leaves it for the finally clause
\* only by an exception.
C14_FlagCheckedAtLoopTop ==
    [][ /\ acquired' > acquired => (pc = "loop" /\ detection_running)
        /\ ~detection_running => acquired' <= acquired
        /\ (pc = "frame" /\ pc' = "finally") => exit_cause' = "exception"
        /\ (pc = "frame" /\ pc' = "loop") => frame_count' = frame_count + 1 ]_vars

\* The flag was cleared during an iteration, whose body then ran and fired the
\* alert; the loop has not yet come back to its condition.
C14_Witness ==
    /\ pc = "loop"
    /\ exit_cause = "running"
    /\ frame_count >= 1
    /\ ~flag_at_frame
    /\ ~detection_running
    /\ alert_edge
    /\ alarm_on

\* C15: a session never goes beyond max_frames reads or processed frames, the
\* script is never idle with the camera open or the flag set, and a session
\* whose camera opened comes to the idle script with the flag false and the
\* camera released.
C15_SessionEnds ==
    /\ [](frame_count <= max_frames /\ acquired <= max_frames)
    /\ [](pc = "idle" => (cap # "open" /\ ~detection_running))
    /\ (cap = "open") ~> (pc = "idle" /\ ~detection_running /\ cap = "released")

\* A session that used up its frame budget has ended with the camera released.
C15_Witness ==
    /\ pc = "idle"
    /\ exit_cause = "budget"
    /\ frame_count = max_frames
    /\ acquired = max_frames
    /\ cap = "released"
    /\ ~detection_running

\* C16: after every processed frame the status label is ALERT exactly when
\* alarm_on is true.
C16_LabelMatchesAlarm ==
    (pc = "loop" /\ frame_count > 0 /\ exit_cause = "running")
        => (current_status = "ALERT" <=> alarm_on)

\* C17: the eyes-detected count of a frame is at least 1 when the frame is
\* classified eyes-open and 0 when it is classified drowsy.
C17_EyeCountMatchesClass ==
    classified =>
        /\ ~drowsy => eyes_detected >= 1
        /\ drowsy => eyes_detected = 0

\* C18: the frame that fires the alert with remote logging on ends as it does
\* without it, whether the push succeeds or fails: alarm_on and play_alarm are
\* true, total_alerts is one higher, the frame is counted, the session goes on
\* and the loop is back at its condition.
C18_PushFailureIsHarmless ==
    [][ (pc = "frame" /\ firebase_enabled /\ total_alerts' # total_alerts) =>
          /\ pc' = "loop"
          /\ pushed' \in { "ok", "failed" }
          /\ alarm_on' /\ play_alarm'
          /\ total_alerts' = total_alerts + 1
          /\ frame_count' = frame_count + 1
          /\ UNCHANGED << detection_running, cap, exit_cause, releases >> ]_vars

\* The push failed on the alert frame and the next frame has been acquired.
C18_Witness ==
    /\ pushed = "failed"
    /\ pc = "frame"
    /\ exit_cause = "running"
    /\ alarm_on
    /\ total_alerts = 1
    /\ cap = "open"

====
